---- MODULE Spec2Model ----
(***************************************************************************)
(* State-machine model of the TourApp front end: the TripPreparation page  *)
(* (two debounced city selectors, the route-validation stage, the          *)
(* travel-mode stage, the hand-over to the configuration page) and the     *)
(* standalone RouteValidation, TravelMode and TestItinerary pages.         *)
(*                                                                         *)
(* Every React event handler, timer callback and fetch continuation is one *)
(* action.  An action includes the effects React runs after the render the *)
(* handler causes (useEffect with its dependency list), because no other   *)
(* event is handled in between.  The router mounts exactly one page, held  *)
(* in the variable page; the variables of the other pages keep their       *)
(* initial values.                                                         *)
(***************************************************************************)
EXTENDS Naturals, Sequences, FiniteSets, Bags, TLC

(***************************************************************************)
(* Bounds of the model and program constants                               *)
(***************************************************************************)
\* most location-search requests of one selector in flight at once
MaxSearchInFlight == 2
\* most mode-recommendation requests in flight at once
MaxModeInFlight == 2
\* useState(3): the day count every page starts with
InitialDays == 3
\* query.length < 2: no search below this length
MinQueryLen == 2
\* useState(461): the distance the TravelMode page starts with
InitialDistance == 461

\* null in a variable that holds a string
None == "None"
\* null in a variable that holds an object
Null == [null |-> TRUE]
NoCity == Null
NoTimer == None

\* two of the cities the location service knows (coordinates in 1/10000 degree)
Mumbai == [name |-> "Mumbai", state |-> "Maharashtra",
           lat |-> 190760, lon |-> 728777]
Goa == [name |-> "Goa", state |-> "Goa", lat |-> 152993, lon |-> 741240]
Cities == {Mumbai, Goa}
\* a second city of the name Goa, in another state, as the location search
\* may list it next to the first
GoaNamesake == [name |-> "Goa", state |-> "Maharashtra",
                lat |-> 190000, lon |-> 730000]

\* the pages the router mounts
Pages == {"TripPreparation", "RouteValidation", "TravelMode", "TestItinerary",
          "TripConfiguration", "ItineraryGeneration", "ItineraryCreationPage"}
\* the texts a user types into a city input
Texts == {"", "G", "Goa", "Mumbai"}
\* the texts typed while the stages of TripPreparation are explored
PipelineTexts == {"", "Goa"}
\* the candidate lists the location-search collaborator answers with
SearchResults == {<<>>, <<Mumbai, Goa>>}
\* the two selectors of TripPreparation
Selectors == {"source", "dest"}
\* the selector of TestItinerary
TestSelector == "test"
AllSelectors == Selectors \cup {TestSelector}
\* the keys of TRAVEL_MODES the user chooses among
Modes == {"train", "flight"}
\* the mode chosen while the stages of TripPreparation are explored
PipelineModes == {"train"}
\* the slider positions the user chooses among: the initial day count and
\* the minimum the feasibility service recommends for Mumbai to Goa
DayChoices == {InitialDays, 4}
\* the positions of the distance slider of TravelMode (50 to 2500, step 50)
DistanceChoices == {50, 500}
\* how a fetch ends: a 2xx answer, a non-2xx answer, or a rejected promise
Outcomes == {"ok", "notOk", "reject"}

ErrBothCities == "Please select both source and destination cities"
ErrSameCity == "Source and destination must be different"
ErrValidateFailed == "Failed to validate route. Ensure backend is running."
ErrModesFailed == "Failed to fetch travel modes. Ensure backend is running."
RvErrValidateFailed ==
  "Failed to validate route. Please ensure the backend is running."
TmErrModesFailed ==
  "Failed to fetch travel modes. Please ensure the backend is running."

\* errorData.detail of a non-2xx answer: absent, or the collaborator's text
NoDetail == None
Details == {NoDetail, "rate limit exceeded"}

\* what the try block of a stage fetch throws: on a non-2xx answer
\* new Error(errorData.detail || `HTTP ${response.status}`), on a rejected
\* promise the TypeError of fetch
ThrownMessage(out, detail) ==
  IF out = "notOk"
  THEN IF detail # NoDetail THEN detail ELSE "HTTP 500"
  ELSE "Failed to fetch"

\* what the catch blocks show: each sets a fixed text and does not read err
ValidateCaught(err) == ErrValidateFailed
ModeCaught(err) == ErrModesFailed
RvCaught(err) == RvErrValidateFailed
TmCaught(err) == TmErrModesFailed

\* TripConfiguration: initial preferences and the pace options
InitialPace == "balanced"
InitialBudget == "premium"
Paces == {"balanced", "fast"}
ErrNoInterest == "Please select at least one interest"
ErrSuggestFallback == "Failed to suggest interests"
ErrConfigureFallback == "Failed to configure trip"
ErrItineraryFallback == "Failed to generate itinerary"
\* the message of the TypeError a rejected fetch throws
ErrFetchFailed == "Failed to fetch"

\* a message that never carries the detail
DetailIgnored(detail, fallback) == fallback

\* err.detail || fallback
DetailOr(detail, fallback) ==
  IF detail = NoDetail \/ detail = "" THEN fallback ELSE detail

\* err.message in the catch of the TripConfiguration and ItineraryGeneration
\* handlers, which throw new Error(err.detail || fallback) on a non-2xx
\* answer
CaughtMessage(out, detail, fallback) ==
  IF out = "notOk" THEN DetailOr(detail, fallback) ELSE ErrFetchFailed

VARIABLES
  \* the mounted page
  page,
  \* the city selectors (source and dest of TripPreparation, test of
  \* TestItinerary), one entry per selector
  city, cityQuery, suggestions, isSearching, showDropdown,
  searchTimer, searchInFlight,
  \* TripPreparation, steps 2 to 4
  days, validationResult, isValidating, validationError, validateInFlight,
  preferredMode, modeData, isLoadingModes, modeError, modeInFlight,
  sessionTripData,
  \* RouteValidation
  rvSource, rvDestination, rvDays, rvValidationResult, rvIsValidating,
  rvError, rvInFlight,
  \* TravelMode
  tmDistance, tmDays, tmPreferredMode, tmModeData, tmIsLoading, tmError,
  tmInFlight,
  \* TestItinerary
  tiError, tiInterests, tiLoading, tiResult, tiInFlight,
  \* TripConfiguration
  tcTripData, detailsConfirmed, pace, suggestedInterests, selectedInterests,
  loadingInterests, loadingConfig, tcError, tcResult, suggestInFlight,
  configInFlight, sessionTripConfiguration,
  \* ItineraryGeneration
  configuration, igLoading, igError, itinerary, itineraryInFlight,
  \* ItineraryCreationPage (the wizard)
  currentStep, wzDestination, startDate, endDate, wzInterests, wzPace,
  generatedItinerary

selVars == <<city, cityQuery, suggestions, isSearching, showDropdown,
             searchTimer, searchInFlight>>
stageVars == <<days, validationResult, isValidating, validationError,
               validateInFlight, preferredMode, modeData, isLoadingModes,
               modeError, modeInFlight, sessionTripData>>
rvVars == <<rvSource, rvDestination, rvDays, rvValidationResult,
            rvIsValidating, rvError, rvInFlight>>
tmVars == <<tmDistance, tmDays, tmPreferredMode, tmModeData, tmIsLoading,
            tmError, tmInFlight>>
tiVars == <<tiError, tiInterests, tiLoading, tiResult, tiInFlight>>
tcVars == <<tcTripData, detailsConfirmed, pace, suggestedInterests,
            selectedInterests, loadingInterests, loadingConfig, tcError,
            tcResult, suggestInFlight, configInFlight,
            sessionTripConfiguration>>
igVars == <<configuration, igLoading, igError, itinerary, itineraryInFlight>>
wzVars == <<currentStep, wzDestination, startDate, endDate, wzInterests,
            wzPace, generatedItinerary>>
vars == <<page, selVars, stageVars, rvVars, tmVars, tiVars, tcVars, igVars,
          wzVars>>

\* the state of TestItinerary's selector under the names of its source
selectedCity == city[TestSelector]
citySearchQuery == cityQuery[TestSelector]
citySuggestions == suggestions[TestSelector]

(***************************************************************************)
(* Collaborators (the FastAPI backend is not part of the front-end source) *)
(***************************************************************************)
\* straight-line distance of two coordinates; 461 km between Mumbai and Goa
DistanceKm(a, b) == IF a = b THEN 0 ELSE 461

\* minimum recommended days for a distance
MinimumDays(d) == IF d = 0 THEN 1 ELSE 4

\* POST /api/route/validate; req records the request the result answers
RouteValidate(req) ==
  LET d == DistanceKm(req.source, req.destination) IN
  [feasible |-> req.days >= MinimumDays(d), distance_km |-> d,
   minimum_days |-> MinimumDays(d), req |-> req]

\* POST /api/travel/modes; req records the request the result answers
TravelModes(req) ==
  LET rec == IF req.distance_km > 300 THEN {"train", "flight"} ELSE {"train"} IN
  [recommended_modes |-> rec,
   preferred_mode_valid |->
     req.preferred_mode = None \/ req.preferred_mode \in rec,
   req |-> req]

\* POST /api/interests/suggest answers with data.interests, a sequence of
\* labels: none, two different ones, or one label listed twice
Interests == <<"beaches", "food">>
SuggestionLists == {<<>>, Interests, <<"food", "food">>}

\* POST /api/trip/configure: the committed Configuration, with the
\* trip-summary sub-object ItineraryGeneration displays
TripConfigure(req) ==
  [trip_summary |-> [source |-> req.source.name,
                     destination |-> req.destination.name,
                     days |-> req.days, travel_mode |-> req.travel_mode],
   constraints |-> [pace |-> req.pace, budget |-> req.budget],
   interests |-> req.selected_interests]

\* POST /api/itinerary; body is the JSON text of the Configuration
GenerateItinerary(body) ==
  [destination |-> body.v.trip_summary.v.destination.v,
   days |-> body.v.trip_summary.v.days.v]

(***************************************************************************)
(* JSON.stringify and JSON.parse.  A JSON text is kept as the tree of its  *)
(* tokens: null, a string, a number, an object of members, an array.       *)
(***************************************************************************)
JsonNull == [t |-> "null"]
JsonString(x) == [t |-> "string", v |-> x]
JsonNumber(n) == [t |-> "number", v |-> n]
JsonObject(members) == [t |-> "object", v |-> members]
JsonArray(elements) == [t |-> "array", v |-> elements]

\* a stringify that writes null as the text "null"
StringifyNullAsText(x) == JsonString(IF x = None THEN "null" ELSE x)

\* JSON.stringify / JSON.parse of a value that is null or a string
StringifyNullable(x) == IF x = None THEN JsonNull ELSE JsonString(x)
ParseNullable(j) == IF j.t = "null" THEN None ELSE j.v

\* ... of a city object, or null
StringifyCity(c) ==
  IF c = NoCity
  THEN JsonNull
  ELSE JsonObject([name |-> JsonString(c.name), state |-> JsonString(c.state),
                   lat |-> JsonNumber(c.lat), lon |-> JsonNumber(c.lon)])
ParseCity(j) ==
  IF j.t = "null"
  THEN NoCity
  ELSE [name |-> j.v.name.v, state |-> j.v.state.v,
        lat |-> j.v.lat.v, lon |-> j.v.lon.v]

\* ... of the tripData object of handleProceedToConfiguration
StringifyTripData(td) ==
  JsonObject([source |-> StringifyCity(td.source),
              destination |-> StringifyCity(td.destination),
              distance_km |-> JsonNumber(td.distance_km),
              travel_mode |-> StringifyNullable(td.travel_mode),
              days |-> JsonNumber(td.days)])
ParseTripData(j) ==
  [source |-> ParseCity(j.v.source),
   destination |-> ParseCity(j.v.destination),
   distance_km |-> j.v.distance_km.v,
   travel_mode |-> ParseNullable(j.v.travel_mode),
   days |-> j.v.days.v]

\* ... of the Configuration /api/trip/configure answers with
StringifyConfiguration(c) ==
  JsonObject(
    [trip_summary |->
       JsonObject([source |-> JsonString(c.trip_summary.source),
                   destination |-> JsonString(c.trip_summary.destination),
                   days |-> JsonNumber(c.trip_summary.days),
                   travel_mode |->
                     StringifyNullable(c.trip_summary.travel_mode)]),
     constraints |-> JsonObject([pace |-> JsonString(c.constraints.pace),
                                 budget |-> JsonString(c.constraints.budget)]),
     interests |-> JsonArray([i \in 1..Len(c.interests) |->
                                JsonString(c.interests[i])])])
ParseConfiguration(j) ==
  [trip_summary |->
     [source |-> j.v.trip_summary.v.source.v,
      destination |-> j.v.trip_summary.v.destination.v,
      days |-> j.v.trip_summary.v.days.v,
      travel_mode |-> ParseNullable(j.v.trip_summary.v.travel_mode)],
   constraints |-> [pace |-> j.v.constraints.v.pace.v,
                    budget |-> j.v.constraints.v.budget.v],
   interests |-> [i \in 1..Len(j.v.interests.v) |-> j.v.interests.v[i].v]]

\* a stored text that is no JSON: JSON.parse throws on it
JsonMalformed == [t |-> "malformed"]

\* a load that takes a text it cannot parse for an empty configuration
LoadConfigurationLenient(item) ==
  IF item = Null
  THEN Null
  ELSE IF item = JsonMalformed
  THEN [trip_summary |-> [source |-> "", destination |-> "", days |-> 0,
                          travel_mode |-> None],
        constraints |-> [pace |-> "", budget |-> ""], interests |-> <<>>]
  ELSE ParseConfiguration(item)

\* sessionStorage.getItem(key) followed by JSON.parse when the item exists;
\* the catch around JSON.parse leaves the state null
LoadTripData(item) ==
  IF item = Null \/ item = JsonMalformed THEN Null ELSE ParseTripData(item)
LoadConfiguration(item) ==
  IF item = Null \/ item = JsonMalformed
  THEN Null
  ELSE ParseConfiguration(item)

(***************************************************************************)
(* The debounced city selector.  TripPreparation holds two copies of this  *)
(* code (source, dest) and TestItinerary one; s names the copy.            *)
(***************************************************************************)
\* a length test that lets every text through
QueryTooShortNever(q) == FALSE

\* sourceCityQuery.length < 2
QueryTooShort(q) == Len(q) < MinQueryLen

\* a short-circuit that is never taken
MatchesSelectionNever(q, c) == FALSE

\* sourceCity && sourceCityQuery === sourceCity.name
MatchesSelection(q, c) == c # NoCity /\ q = c.name

\* an onChange that never clears the selection
DivergesFromSelectionNever(v, c) == FALSE

\* sourceCity && e.target.value !== sourceCity.name
DivergesFromSelection(v, c) == c # NoCity /\ v # c.name

\* The search effect (deps [query, city]): the cleanup of the previous run
\* clears its timer, then the body runs with the new query q and city c.
SearchEffect(q, c, sugg, show, searching) ==
  IF QueryTooShort(q)
  THEN [suggestions |-> <<>>, showDropdown |-> FALSE,
        isSearching |-> searching, searchTimer |-> NoTimer]
  ELSE IF MatchesSelection(q, c)
  THEN [suggestions |-> sugg, showDropdown |-> FALSE,
        isSearching |-> searching, searchTimer |-> NoTimer]
  ELSE [suggestions |-> sugg, showDropdown |-> show,
        isSearching |-> TRUE, searchTimer |-> q]

\* writes the result of the search effect into selector s
ApplySearchEffect(s, e) ==
  /\ suggestions' = [suggestions EXCEPT ![s] = e.suggestions]
  /\ showDropdown' = [showDropdown EXCEPT ![s] = e.showDropdown]
  /\ isSearching' = [isSearching EXCEPT ![s] = e.isSearching]
  /\ searchTimer' = [searchTimer EXCEPT ![s] = e.searchTimer]

\* input onChange with the new text v, and the search effect after it
EditCore(s, v) ==
  /\ v # cityQuery[s]
  /\ LET c == IF DivergesFromSelection(v, city[s]) THEN NoCity ELSE city[s] IN
       /\ cityQuery' = [cityQuery EXCEPT ![s] = v]
       /\ city' = [city EXCEPT ![s] = c]
       /\ ApplySearchEffect(s, SearchEffect(v, c, suggestions[s],
                                            showDropdown[s], isSearching[s]))
  /\ UNCHANGED searchInFlight

\* the dropdown of s is rendered (its ref is set)
DropdownRendered(s) == showDropdown[s] /\ Len(suggestions[s]) > 0

\* click on the i-th candidate of the rendered dropdown; the search effect
\* runs after it when the query or the city changed
PickCore(s, i) ==
  /\ DropdownRendered(s)
  /\ i \in 1..Len(suggestions[s])
  /\ LET c == suggestions[s][i] IN
       /\ city' = [city EXCEPT ![s] = c]
       /\ cityQuery' = [cityQuery EXCEPT ![s] = c.name]
       /\ IF c # city[s] \/ c.name # cityQuery[s]
          THEN ApplySearchEffect(s, SearchEffect(c.name, c, suggestions[s],
                                                 FALSE, isSearching[s]))
          ELSE /\ showDropdown' = [showDropdown EXCEPT ![s] = FALSE]
               /\ UNCHANGED <<suggestions, isSearching, searchTimer>>
  /\ UNCHANGED searchInFlight

\* input onFocus
FocusCore(s) ==
  /\ Len(suggestions[s]) > 0
  /\ ~showDropdown[s]
  /\ showDropdown' = [showDropdown EXCEPT ![s] = TRUE]
  /\ UNCHANGED <<city, cityQuery, suggestions, isSearching, searchTimer,
                 searchInFlight>>

\* document mousedown outside the input and the dropdown of every selector
\* in S (the refs of a dropdown are set only while it is rendered)
ClickOutsideCore(S) ==
  /\ S # {}
  /\ \A s \in S : DropdownRendered(s)
  /\ showDropdown' = [s \in AllSelectors |->
                        IF s \in S THEN FALSE ELSE showDropdown[s]]
  /\ UNCHANGED <<city, cityQuery, suggestions, isSearching, searchTimer,
                 searchInFlight>>

\* the 400 ms timer of the search effect fires: the fetch is dispatched
FireCore(s) ==
  /\ searchTimer[s] # NoTimer
  /\ BagCardinality(searchInFlight[s]) < MaxSearchInFlight
  /\ searchInFlight' = [searchInFlight EXCEPT
                          ![s] = @ (+) SetToBag({searchTimer[s]})]
  /\ searchTimer' = [searchTimer EXCEPT ![s] = NoTimer]
  /\ UNCHANGED <<city, cityQuery, suggestions, isSearching, showDropdown>>

\* a continuation that commits the data whatever the outcome
SearchCommitAlways(out, data) ==
  [suggestions |-> data, showDropdown |-> Len(data) > 0]

\* what the continuation of the search fetch writes
SearchCommit(out, data) ==
  IF out = "ok"
  THEN [suggestions |-> data, showDropdown |-> Len(data) > 0]
  ELSE [suggestions |-> <<>>, showDropdown |-> FALSE]

\* the search fetch for query q settles
RespondCore(s, q, out, data) ==
  /\ BagIn(q, searchInFlight[s])
  /\ searchInFlight' = [searchInFlight EXCEPT ![s] = @ (-) SetToBag({q})]
  /\ suggestions' = [suggestions EXCEPT
                       ![s] = SearchCommit(out, data).suggestions]
  /\ showDropdown' = [showDropdown EXCEPT
                        ![s] = SearchCommit(out, data).showDropdown]
  /\ isSearching' = [isSearching EXCEPT ![s] = FALSE]
  /\ UNCHANGED <<city, cityQuery, searchTimer>>

(***************************************************************************)
(* TripPreparation, step 1: the source and destination selectors           *)
(***************************************************************************)
\* TripPreparation is mounted (window.location.href has not been assigned)
Mounted == page = "TripPreparation" /\ sessionTripData = Null

EditQuery(s, v) ==
  /\ Mounted
  /\ EditCore(s, v)
  /\ UNCHANGED <<page, stageVars, rvVars, tmVars, tiVars, tcVars, igVars, wzVars>>

PickCandidate(s, i) ==
  /\ Mounted
  /\ PickCore(s, i)
  /\ UNCHANGED <<page, stageVars, rvVars, tmVars, tiVars, tcVars, igVars, wzVars>>

FocusInput(s) ==
  /\ Mounted
  /\ FocusCore(s)
  /\ UNCHANGED <<page, stageVars, rvVars, tmVars, tiVars, tcVars, igVars, wzVars>>

ClickOutside(S) ==
  /\ Mounted
  /\ ClickOutsideCore(S)
  /\ UNCHANGED <<page, stageVars, rvVars, tmVars, tiVars, tcVars, igVars, wzVars>>

DebounceFire(s) ==
  /\ Mounted
  /\ FireCore(s)
  /\ UNCHANGED <<page, stageVars, rvVars, tmVars, tiVars, tcVars, igVars, wzVars>>

SearchRespond(s, q, out, data) ==
  /\ Mounted
  /\ RespondCore(s, q, out, data)
  /\ UNCHANGED <<page, stageVars, rvVars, tmVars, tiVars, tcVars, igVars, wzVars>>

(***************************************************************************)
(* TestItinerary: the destination selector                                 *)
(***************************************************************************)
handleCityInputChange(v) ==
  /\ page = "TestItinerary"
  /\ EditCore(TestSelector, v)
  /\ UNCHANGED <<page, stageVars, rvVars, tmVars, tiVars, tcVars, igVars, wzVars>>

handleCitySelect(i) ==
  /\ page = "TestItinerary"
  /\ PickCore(TestSelector, i)
  /\ tiError' = None
  /\ UNCHANGED <<tiInterests, tiLoading, tiResult, tiInFlight>>
  /\ UNCHANGED <<page, stageVars, rvVars, tmVars, tcVars, igVars, wzVars>>

\* the x button of the selected-city badge
ClearSelectedCity ==
  /\ page = "TestItinerary"
  /\ selectedCity # NoCity
  /\ city' = [city EXCEPT ![TestSelector] = NoCity]
  /\ cityQuery' = [cityQuery EXCEPT ![TestSelector] = ""]
  /\ ApplySearchEffect(TestSelector,
       SearchEffect("", NoCity, citySuggestions, showDropdown[TestSelector],
                    isSearching[TestSelector]))
  /\ tiError' = None
  /\ UNCHANGED <<tiInterests, tiLoading, tiResult, tiInFlight>>
  /\ UNCHANGED <<searchInFlight, page, stageVars, rvVars, tmVars, tcVars,
                 igVars, wzVars>>

TiFocusInput ==
  /\ page = "TestItinerary"
  /\ FocusCore(TestSelector)
  /\ UNCHANGED <<page, stageVars, rvVars, tmVars, tiVars, tcVars, igVars, wzVars>>

TiClickOutside ==
  /\ page = "TestItinerary"
  /\ ClickOutsideCore({TestSelector})
  /\ UNCHANGED <<page, stageVars, rvVars, tmVars, tiVars, tcVars, igVars, wzVars>>

TiDebounceFire ==
  /\ page = "TestItinerary"
  /\ FireCore(TestSelector)
  /\ UNCHANGED <<page, stageVars, rvVars, tmVars, tiVars, tcVars, igVars, wzVars>>

TiSearchRespond(q, out, data) ==
  /\ page = "TestItinerary"
  /\ RespondCore(TestSelector, q, out, data)
  /\ UNCHANGED <<page, stageVars, rvVars, tmVars, tiVars, tcVars, igVars, wzVars>>

(***************************************************************************)
(* TripPreparation, steps 2 to 4: route validation, travel mode, proceed   *)
(***************************************************************************)
\* the body of the POST to /api/route/validate
ValidateBody(src, dst, d) ==
  [source |-> [lat |-> src.lat, lon |-> src.lon],
   destination |-> [lat |-> dst.lat, lon |-> dst.lon],
   days |-> d]

\* the body of the POST to /api/travel/modes
ModesBody(distance, d, mode) ==
  [distance_km |-> distance, days |-> d, preferred_mode |-> mode]

\* !sourceCity || !destCity
EndpointMissing(src, dst) == src = NoCity \/ dst = NoCity

\* a guard that lets equal endpoints through
SameEndpointsNever(src, dst) == FALSE

\* sourceCity.name === destCity.name
SameEndpoints(src, dst) == src.name = dst.name

\* validationResult && validationResult.feasible
FeasibleResult(result) == result # Null /\ result.feasible

\* an auto-fetch effect that never fetches
ModeEffectNever(result, d, mode) ==
  UNCHANGED <<isLoadingModes, modeError, modeInFlight>>

\* The auto-fetch effect (deps [validationResult, days, preferredMode]) run
\* with the values of the new render: fetchTravelModes dispatches a request
\* when the held result is feasible, and does nothing otherwise.
ModeEffect(result, d, mode) ==
  IF FeasibleResult(result)
  THEN /\ BagCardinality(modeInFlight) < MaxModeInFlight
       /\ isLoadingModes' = TRUE
       /\ modeError' = None
       /\ modeInFlight' =
            modeInFlight (+) SetToBag({ModesBody(result.distance_km, d, mode)})
  ELSE UNCHANGED <<isLoadingModes, modeError, modeInFlight>>

\* days slider onChange
ChangeDays(d) ==
  /\ Mounted
  /\ d # days
  /\ days' = d
  /\ ModeEffect(validationResult, d, preferredMode)
  /\ UNCHANGED <<validationResult, isValidating, validationError,
                 validateInFlight, preferredMode, modeData, sessionTripData>>
  /\ UNCHANGED <<page, selVars, rvVars, tmVars, tiVars, tcVars, igVars, wzVars>>

\* a button that stays enabled while a validation is running
ValidateDisabledIgnoringFlight ==
  city["source"] = NoCity \/ city["dest"] = NoCity

\* disabled={isValidating || !sourceCity || !destCity}
ValidateDisabled ==
  isValidating \/ city["source"] = NoCity \/ city["dest"] = NoCity

\* click on Validate Route: handleValidateRoute up to its await
ClickValidateRoute ==
  /\ Mounted
  /\ ~ValidateDisabled
  /\ IF EndpointMissing(city["source"], city["dest"])
     THEN /\ validationError' = ErrBothCities
          /\ UNCHANGED <<isValidating, validationResult, modeData,
                         preferredMode, validateInFlight>>
     ELSE IF SameEndpoints(city["source"], city["dest"])
     THEN /\ validationError' = ErrSameCity
          /\ UNCHANGED <<isValidating, validationResult, modeData,
                         preferredMode, validateInFlight>>
     ELSE /\ isValidating' = TRUE
          /\ validationError' = None
          /\ validationResult' = Null
          /\ modeData' = Null
          /\ preferredMode' = None
          /\ validateInFlight' = validateInFlight \cup
               {ValidateBody(city["source"], city["dest"], days)}
  /\ UNCHANGED <<days, isLoadingModes, modeError, modeInFlight,
                 sessionTripData>>
  /\ UNCHANGED <<page, selVars, rvVars, tmVars, tiVars, tcVars, igVars, wzVars>>

\* the validation fetch settles: handleValidateRoute after its await
ValidateRespond(out, detail) ==
  /\ Mounted
  /\ detail # NoDetail => out = "notOk"
  /\ \E req \in validateInFlight :
       /\ validateInFlight' = validateInFlight \ {req}
       /\ isValidating' = FALSE
       /\ IF out = "ok"
          THEN /\ validationResult' = RouteValidate(req)
               /\ ModeEffect(RouteValidate(req), days, preferredMode)
               /\ UNCHANGED validationError
          ELSE /\ validationError' = ValidateCaught(ThrownMessage(out, detail))
               /\ UNCHANGED <<validationResult, isLoadingModes, modeError,
                              modeInFlight>>
       /\ UNCHANGED <<days, preferredMode, modeData, sessionTripData>>
       /\ UNCHANGED <<page, selVars, rvVars, tmVars, tiVars, tcVars, igVars, wzVars>>

\* the mode grid is rendered:
\* validationResult && validationResult.feasible, and inside it modeData
ModeGridRendered == FeasibleResult(validationResult) /\ modeData # Null

\* click on a mode button: setPreferredMode(isSelected ? null : modeKey)
TogglePreferredMode(m) ==
  /\ Mounted
  /\ ModeGridRendered
  /\ preferredMode' = IF preferredMode = m THEN None ELSE m
  /\ ModeEffect(validationResult, days, preferredMode')
  /\ UNCHANGED <<days, validationResult, isValidating, validationError,
                 validateInFlight, modeData, sessionTripData>>
  /\ UNCHANGED <<page, selVars, rvVars, tmVars, tiVars, tcVars, igVars, wzVars>>

\* the travel-modes fetch settles: fetchTravelModes after its await
ModeRespond(out, detail) ==
  /\ Mounted
  /\ detail # NoDetail => out = "notOk"
  /\ \E req \in BagToSet(modeInFlight) :
       /\ modeInFlight' = modeInFlight (-) SetToBag({req})
       /\ isLoadingModes' = FALSE
       /\ IF out = "ok"
          THEN modeData' = TravelModes(req) /\ UNCHANGED modeError
          ELSE /\ modeError' = ModeCaught(ThrownMessage(out, detail))
               /\ UNCHANGED modeData
       /\ UNCHANGED <<days, validationResult, isValidating, validationError,
                      validateInFlight, preferredMode, sessionTripData>>
       /\ UNCHANGED <<page, selVars, rvVars, tmVars, tiVars, tcVars, igVars, wzVars>>

\* validationResult && validationResult.feasible && modeData
Step4Rendered == FeasibleResult(validationResult) /\ modeData # Null

\* click on Continue to Trip Configuration: handleProceedToConfiguration
\* writes tripData to session storage and leaves the page
ProceedToConfiguration ==
  /\ Mounted
  /\ Step4Rendered
  /\ sessionTripData' =
       StringifyTripData(
         [source |-> city["source"], destination |-> city["dest"],
          distance_km |-> validationResult.distance_km,
          travel_mode |-> preferredMode, days |-> days])
  \* window.location.href = '/trip-configuration': TripPreparation is
  \* unloaded with its requests, TripConfiguration mounts and its effect
  \* loads tripData
  /\ page' = "TripConfiguration"
  /\ tcTripData' = LoadTripData(sessionTripData')
  /\ city' = [s \in AllSelectors |-> NoCity]
  /\ cityQuery' = [s \in AllSelectors |-> ""]
  /\ suggestions' = [s \in AllSelectors |-> <<>>]
  /\ isSearching' = [s \in AllSelectors |-> FALSE]
  /\ showDropdown' = [s \in AllSelectors |-> FALSE]
  /\ searchTimer' = [s \in AllSelectors |-> NoTimer]
  /\ searchInFlight' = [s \in AllSelectors |-> EmptyBag]
  /\ days' = InitialDays
  /\ validationResult' = Null
  /\ isValidating' = FALSE
  /\ validationError' = None
  /\ validateInFlight' = {}
  /\ preferredMode' = None
  /\ modeData' = Null
  /\ isLoadingModes' = FALSE
  /\ modeError' = None
  /\ modeInFlight' = EmptyBag
  /\ UNCHANGED <<detailsConfirmed, pace, suggestedInterests,
                 selectedInterests, loadingInterests, loadingConfig, tcError,
                 tcResult, suggestInFlight, configInFlight,
                 sessionTripConfiguration>>
  /\ UNCHANGED <<rvVars, tmVars, tiVars, igVars, wzVars>>

(***************************************************************************)
(* RouteValidation: the standalone feasibility page                        *)
(***************************************************************************)
\* select onChange of the source city: exampleCities.find(...) || null
SelectSource(c) ==
  /\ page = "RouteValidation"
  /\ c # rvSource
  /\ rvSource' = c
  /\ rvValidationResult' = Null
  /\ UNCHANGED <<rvDestination, rvDays, rvIsValidating, rvError, rvInFlight>>
  /\ UNCHANGED <<page, selVars, stageVars, tmVars, tiVars, tcVars, igVars, wzVars>>

\* select onChange of the destination city
SelectDestination(c) ==
  /\ page = "RouteValidation"
  /\ c # rvDestination
  /\ rvDestination' = c
  /\ rvValidationResult' = Null
  /\ UNCHANGED <<rvSource, rvDays, rvIsValidating, rvError, rvInFlight>>
  /\ UNCHANGED <<page, selVars, stageVars, tmVars, tiVars, tcVars, igVars, wzVars>>

\* days slider onChange
RvChangeDays(d) ==
  /\ page = "RouteValidation"
  /\ d # rvDays
  /\ rvDays' = d
  /\ rvValidationResult' = Null
  /\ UNCHANGED <<rvSource, rvDestination, rvIsValidating, rvError, rvInFlight>>
  /\ UNCHANGED <<page, selVars, stageVars, tmVars, tiVars, tcVars, igVars, wzVars>>

\* disabled={isValidating || !source || !destination}
RvValidateDisabled ==
  rvIsValidating \/ rvSource = NoCity \/ rvDestination = NoCity

\* click on Validate Route: handleValidate up to its await
handleValidate ==
  /\ page = "RouteValidation"
  /\ ~RvValidateDisabled
  /\ IF EndpointMissing(rvSource, rvDestination)
     THEN /\ rvError' = ErrBothCities
          /\ UNCHANGED <<rvIsValidating, rvValidationResult, rvInFlight>>
     ELSE IF SameEndpoints(rvSource, rvDestination)
     THEN /\ rvError' = ErrSameCity
          /\ UNCHANGED <<rvIsValidating, rvValidationResult, rvInFlight>>
     ELSE /\ rvIsValidating' = TRUE
          /\ rvError' = None
          /\ rvValidationResult' = Null
          /\ rvInFlight' = rvInFlight \cup
               {ValidateBody(rvSource, rvDestination, rvDays)}
  /\ UNCHANGED <<rvSource, rvDestination, rvDays>>
  /\ UNCHANGED <<page, selVars, stageVars, tmVars, tiVars, tcVars, igVars, wzVars>>

\* the validation fetch settles: handleValidate after its await
RvValidateRespond(out, detail) ==
  /\ page = "RouteValidation"
  /\ detail # NoDetail => out = "notOk"
  /\ \E req \in rvInFlight :
       /\ rvInFlight' = rvInFlight \ {req}
       /\ rvIsValidating' = FALSE
       /\ IF out = "ok"
          THEN rvValidationResult' = RouteValidate(req) /\ UNCHANGED rvError
          ELSE /\ rvError' = RvCaught(ThrownMessage(out, detail))
               /\ UNCHANGED rvValidationResult
       /\ UNCHANGED <<rvSource, rvDestination, rvDays>>
       /\ UNCHANGED <<page, selVars, stageVars, tmVars, tiVars, tcVars, igVars, wzVars>>

\* click on Use N Days (rendered with an infeasible result):
\* setDays(validationResult.minimum_days)
UseMinimumDays ==
  /\ page = "RouteValidation"
  /\ rvValidationResult # Null
  /\ ~rvValidationResult.feasible
  /\ rvDays # rvValidationResult.minimum_days
  /\ rvDays' = rvValidationResult.minimum_days
  /\ UNCHANGED <<rvSource, rvDestination, rvValidationResult, rvIsValidating,
                 rvError, rvInFlight>>
  /\ UNCHANGED <<page, selVars, stageVars, tmVars, tiVars, tcVars, igVars, wzVars>>

(***************************************************************************)
(* TravelMode: the standalone mode page                                    *)
(***************************************************************************)
\* fetchTravelModes up to its await, as run by the effect with deps
\* [distance, days, preferredMode] after a render that changed one of them
TmFetch(distance, d, mode) ==
  /\ BagCardinality(tmInFlight) < MaxModeInFlight
  /\ tmIsLoading' = TRUE
  /\ tmError' = None
  /\ tmInFlight' = tmInFlight (+) SetToBag({ModesBody(distance, d, mode)})

\* distance slider onChange
TmChangeDistance(x) ==
  /\ page = "TravelMode"
  /\ x # tmDistance
  /\ tmDistance' = x
  /\ TmFetch(x, tmDays, tmPreferredMode)
  /\ UNCHANGED <<tmDays, tmPreferredMode, tmModeData>>
  /\ UNCHANGED <<page, selVars, stageVars, rvVars, tiVars, tcVars, igVars, wzVars>>

\* days slider onChange
TmChangeDays(d) ==
  /\ page = "TravelMode"
  /\ d # tmDays
  /\ tmDays' = d
  /\ TmFetch(tmDistance, d, tmPreferredMode)
  /\ UNCHANGED <<tmDistance, tmPreferredMode, tmModeData>>
  /\ UNCHANGED <<page, selVars, stageVars, rvVars, tiVars, tcVars, igVars, wzVars>>

\* modeData && !isLoading
TmResultsRendered == tmModeData # Null /\ ~tmIsLoading

\* click on a mode button: setPreferredMode(isSelected ? null : modeKey)
TmTogglePreferredMode(m) ==
  /\ page = "TravelMode"
  /\ TmResultsRendered
  /\ tmPreferredMode' = IF tmPreferredMode = m THEN None ELSE m
  /\ TmFetch(tmDistance, tmDays, tmPreferredMode')
  /\ UNCHANGED <<tmDistance, tmDays, tmModeData>>
  /\ UNCHANGED <<page, selVars, stageVars, rvVars, tiVars, tcVars, igVars, wzVars>>

\* click on Clear Selection in the not-recommended warning
TmClearSelection ==
  /\ page = "TravelMode"
  /\ TmResultsRendered
  /\ tmPreferredMode # None
  /\ ~tmModeData.preferred_mode_valid
  /\ tmPreferredMode' = None
  /\ TmFetch(tmDistance, tmDays, None)
  /\ UNCHANGED <<tmDistance, tmDays, tmModeData>>
  /\ UNCHANGED <<page, selVars, stageVars, rvVars, tiVars, tcVars, igVars, wzVars>>

\* the travel-modes fetch settles: fetchTravelModes after its await
TmModeRespond(out, detail) ==
  /\ page = "TravelMode"
  /\ detail # NoDetail => out = "notOk"
  /\ \E req \in BagToSet(tmInFlight) :
       /\ tmInFlight' = tmInFlight (-) SetToBag({req})
       /\ tmIsLoading' = FALSE
       /\ IF out = "ok"
          THEN tmModeData' = TravelModes(req) /\ UNCHANGED tmError
          ELSE /\ tmError' = TmCaught(ThrownMessage(out, detail))
               /\ UNCHANGED tmModeData
       /\ UNCHANGED <<tmDistance, tmDays, tmPreferredMode>>
       /\ UNCHANGED <<page, selVars, stageVars, rvVars, tiVars, tcVars, igVars, wzVars>>

(***************************************************************************)
(* TripConfiguration                                                       *)
(***************************************************************************)
\* the main UI is rendered: tripData is loaded, and the render reads
\* tripData.source.name and tripData.destination.name
TcRendered ==
  /\ page = "TripConfiguration"
  /\ tcTripData # Null
  /\ tcTripData.source # NoCity
  /\ tcTripData.destination # NoCity

\* the body of the POST to /api/interests/suggest
SuggestBody(td) ==
  [source |-> td.source.name, destination |-> td.destination.name,
   travel_mode |-> td.travel_mode, days |-> td.days]

\* the body of the POST to /api/trip/configure
ConfigureBody(td, p, interests) ==
  [source |-> td.source, destination |-> td.destination,
   distance_km |-> td.distance_km, travel_mode |-> td.travel_mode,
   days |-> td.days, pace |-> p, budget |-> InitialBudget,
   selected_interests |-> interests]

\* click on Confirm Details
ConfirmDetails ==
  /\ TcRendered
  /\ ~detailsConfirmed
  /\ detailsConfirmed' = TRUE
  /\ UNCHANGED <<tcTripData, pace, suggestedInterests, selectedInterests,
                 loadingInterests, loadingConfig, tcError, tcResult,
                 suggestInFlight, configInFlight, sessionTripConfiguration>>
  /\ UNCHANGED <<page, selVars, stageVars, rvVars, tmVars, tiVars, igVars, wzVars>>

\* pace radio onChange
setPace(p) ==
  /\ TcRendered
  /\ detailsConfirmed
  /\ p # pace
  /\ pace' = p
  /\ UNCHANGED <<tcTripData, detailsConfirmed, suggestedInterests,
                 selectedInterests, loadingInterests, loadingConfig, tcError,
                 tcResult, suggestInFlight, configInFlight,
                 sessionTripConfiguration>>
  /\ UNCHANGED <<page, selVars, stageVars, rvVars, tmVars, tiVars, igVars, wzVars>>

\* click on Get AI Suggestions: handleSuggestInterests up to the fetch
handleSuggestInterests ==
  /\ TcRendered
  /\ detailsConfirmed
  /\ ~loadingInterests
  /\ loadingInterests' = TRUE
  /\ tcError' = None
  /\ suggestInFlight' = suggestInFlight \cup {SuggestBody(tcTripData)}
  /\ UNCHANGED <<tcTripData, detailsConfirmed, pace, suggestedInterests,
                 selectedInterests, loadingConfig, tcResult, configInFlight,
                 sessionTripConfiguration>>
  /\ UNCHANGED <<page, selVars, stageVars, rvVars, tmVars, tiVars, igVars, wzVars>>

\* data.interests.slice(0, 5)
AutoSelected(interests) ==
  SubSeq(interests, 1, IF Len(interests) < 5 THEN Len(interests) ELSE 5)

\* the suggestion fetch settles: handleSuggestInterests after its await
SuggestRespond(out, detail, data) ==
  /\ page = "TripConfiguration"
  /\ detail # NoDetail => out = "notOk"
  /\ \E req \in suggestInFlight :
       /\ suggestInFlight' = suggestInFlight \ {req}
       /\ loadingInterests' = FALSE
       /\ IF out = "ok"
          THEN /\ suggestedInterests' = data
               /\ selectedInterests' = AutoSelected(data)
               /\ UNCHANGED tcError
          ELSE /\ tcError' = CaughtMessage(out, detail, ErrSuggestFallback)
               /\ UNCHANGED <<suggestedInterests, selectedInterests>>
  /\ UNCHANGED <<tcTripData, detailsConfirmed, pace, loadingConfig, tcResult,
                 configInFlight, sessionTripConfiguration>>
  /\ UNCHANGED <<page, selVars, stageVars, rvVars, tmVars, tiVars, igVars, wzVars>>

\* prev.includes(interest) ? prev.filter(i => i !== interest)
\*                         : [...prev, interest]
ToggledInterests(prev, interest) ==
  IF \E i \in 1..Len(prev) : prev[i] = interest
  THEN SelectSeq(prev, LAMBDA x : x # interest)
  ELSE Append(prev, interest)

\* checkbox onChange of a suggested interest
toggleInterest(interest) ==
  /\ TcRendered
  /\ detailsConfirmed
  /\ \E i \in 1..Len(suggestedInterests) : suggestedInterests[i] = interest
  /\ selectedInterests' = ToggledInterests(selectedInterests, interest)
  /\ UNCHANGED <<tcTripData, detailsConfirmed, pace, suggestedInterests,
                 loadingInterests, loadingConfig, tcError, tcResult,
                 suggestInFlight, configInFlight, sessionTripConfiguration>>
  /\ UNCHANGED <<page, selVars, stageVars, rvVars, tmVars, tiVars, igVars, wzVars>>

\* a test that finds interests in every list
InterestsMissingNever(interests) == FALSE

\* selectedInterests.length === 0
InterestsMissing(interests) == Len(interests) = 0

\* a Finalize button that stays enabled while a configure request runs
ConfigureDisabledIgnoringFlight ==
  ~detailsConfirmed \/ InterestsMissing(selectedInterests)

\* Finalize Configuration is disabled:
\* !detailsConfirmed || loadingConfig || selectedInterests.length === 0
ConfigureDisabled ==
  ~detailsConfirmed \/ loadingConfig \/ InterestsMissing(selectedInterests)

\* click on Finalize Configuration: handleConfigureTrip up to the fetch
handleConfigureTrip ==
  /\ TcRendered
  /\ ~ConfigureDisabled
  /\ IF InterestsMissing(selectedInterests)
     THEN /\ tcError' = ErrNoInterest
          /\ UNCHANGED <<loadingConfig, tcResult, configInFlight>>
     ELSE /\ loadingConfig' = TRUE
          /\ tcError' = None
          /\ tcResult' = Null
          /\ configInFlight' = configInFlight \cup
               {ConfigureBody(tcTripData, pace, selectedInterests)}
  /\ UNCHANGED <<tcTripData, detailsConfirmed, pace, suggestedInterests,
                 selectedInterests, loadingInterests, suggestInFlight,
                 sessionTripConfiguration>>
  /\ UNCHANGED <<page, selVars, stageVars, rvVars, tmVars, tiVars, igVars, wzVars>>

\* a continuation without the finally: the flag is cleared on success only
ConfigureRespondLeaking(out, detail) ==
  /\ page = "TripConfiguration"
  /\ detail # NoDetail => out = "notOk"
  /\ \E req \in configInFlight :
       /\ configInFlight' = configInFlight \ {req}
       /\ IF out = "ok"
          THEN /\ tcResult' = TripConfigure(req)
               /\ loadingConfig' = FALSE
               /\ UNCHANGED tcError
          ELSE /\ tcError' = CaughtMessage(out, detail, ErrConfigureFallback)
               /\ UNCHANGED <<tcResult, loadingConfig>>
  /\ UNCHANGED <<tcTripData, detailsConfirmed, pace, suggestedInterests,
                 selectedInterests, loadingInterests, suggestInFlight,
                 sessionTripConfiguration>>
  /\ UNCHANGED <<page, selVars, stageVars, rvVars, tmVars, tiVars, igVars, wzVars>>

\* the configure fetch settles: handleConfigureTrip after its await
ConfigureRespond(out, detail) ==
  /\ page = "TripConfiguration"
  /\ detail # NoDetail => out = "notOk"
  /\ \E req \in configInFlight :
       /\ configInFlight' = configInFlight \ {req}
       /\ loadingConfig' = FALSE
       /\ IF out = "ok"
          THEN tcResult' = TripConfigure(req) /\ UNCHANGED tcError
          ELSE /\ tcError' = CaughtMessage(out, detail, ErrConfigureFallback)
               /\ UNCHANGED tcResult
  /\ UNCHANGED <<tcTripData, detailsConfirmed, pace, suggestedInterests,
                 selectedInterests, loadingInterests, suggestInFlight,
                 sessionTripConfiguration>>
  /\ UNCHANGED <<page, selVars, stageVars, rvVars, tmVars, tiVars, igVars, wzVars>>

\* click on Generate Itinerary (rendered with a result): the result is
\* stored under tripConfiguration and window.location.href is assigned;
\* TripConfiguration is unloaded with its requests, ItineraryGeneration
\* mounts and its effect loads the configuration
PersistAndGenerate ==
  /\ TcRendered
  /\ tcResult # Null
  /\ sessionTripConfiguration' = StringifyConfiguration(tcResult)
  /\ page' = "ItineraryGeneration"
  /\ configuration' = LoadConfiguration(sessionTripConfiguration')
  /\ tcTripData' = Null
  /\ detailsConfirmed' = FALSE
  /\ pace' = InitialPace
  /\ suggestedInterests' = <<>>
  /\ selectedInterests' = <<>>
  /\ loadingInterests' = FALSE
  /\ loadingConfig' = FALSE
  /\ tcError' = None
  /\ tcResult' = Null
  /\ suggestInFlight' = {}
  /\ configInFlight' = {}
  /\ UNCHANGED <<igLoading, igError, itinerary, itineraryInFlight>>
  /\ UNCHANGED <<selVars, stageVars, rvVars, tmVars, tiVars, wzVars>>

(***************************************************************************)
(* TestItinerary: handleGenerate.  The progress indicator                  *)
(* (simulateProgress) only delays the continuation and is read by no       *)
(* handler; it is left out.  A message is kept as the sequence of its      *)
(* words, so that String.includes is a test for a contiguous run of words. *)
(***************************************************************************)
\* the interest checkboxes the user chooses among
TiInterestOptions == {"beaches", "culture"}
\* response.status of a non-2xx answer
TiStatuses == {"400", "429", "500"}
\* errorData.detail of a non-2xx answer: absent (or empty), or a text
TiDetails == {<<>>, <<"rate", "limit", "exceeded">>}

TiErrInvalidRequest == "Invalid request. Please check your inputs."
TiErrPremiumLimit ==
  "Premium model limit reached. Please use the standard model."
TiErrGenerateFailed == "Failed to generate itinerary. Please try again."

\* msg.includes(needle)
Includes(msg, needle) ==
  \E i \in 0..(Len(msg) - Len(needle)) :
    SubSeq(msg, i + 1, i + Len(needle)) = needle

\* what the try block throws: on a non-2xx answer
\* new Error(errorData.detail || `HTTP ${response.status}`), on a rejected
\* promise the TypeError of fetch
TiThrown(out, status, detail) ==
  IF out = "notOk"
  THEN IF detail # <<>> THEN detail ELSE <<"HTTP", status>>
  ELSE <<"Failed", "to", "fetch">>

\* the text the catch block shows for err.message
TiCaught(message) ==
  IF Includes(message, <<"HTTP", "400">>) THEN TiErrInvalidRequest
  ELSE IF Includes(message, <<"HTTP", "429">>) THEN TiErrPremiumLimit
  ELSE IF Includes(message, <<"Failed", "to", "fetch">>)
  THEN "Cannot connect to backend. Please ensure the server is running on http://127.0.0.1:8000"
  ELSE TiErrGenerateFailed

\* interest checkbox onChange: toggleInterest(option.id)
TiToggleInterest(id) ==
  /\ page = "TestItinerary"
  /\ tiInterests' = ToggledInterests(tiInterests, id)
  /\ UNCHANGED <<tiError, tiLoading, tiResult, tiInFlight>>
  /\ UNCHANGED <<page, selVars, stageVars, rvVars, tmVars, tcVars, igVars, wzVars>>

\* click on Generate Itinerary (disabled={loading}): handleGenerate up to
\* the fetch
handleGenerate ==
  /\ page = "TestItinerary"
  /\ ~tiLoading
  /\ IF selectedCity = NoCity
     THEN /\ tiError' = "Please select a valid city from the dropdown"
          /\ UNCHANGED <<tiLoading, tiResult, tiInFlight>>
     ELSE IF Len(tiInterests) = 0
     THEN /\ tiError' = ErrNoInterest
          /\ UNCHANGED <<tiLoading, tiResult, tiInFlight>>
     ELSE /\ tiLoading' = TRUE
          /\ tiError' = None
          /\ tiResult' = Null
          /\ tiInFlight' = tiInFlight \cup
               {[destination |-> selectedCity.name,
                 interests |-> tiInterests, model |-> "flash"]}
  /\ UNCHANGED tiInterests
  /\ UNCHANGED <<page, selVars, stageVars, rvVars, tmVars, tcVars, igVars, wzVars>>

\* the itinerary fetch settles: handleGenerate after its awaits.  status
\* and detail are read from a non-2xx answer only; the answer of the
\* service to a 2xx is the itinerary for the requested destination.
TiGenerateRespond(out, status, detail) ==
  /\ page = "TestItinerary"
  /\ out # "notOk" => status = "500" /\ detail = <<>>
  /\ \E req \in tiInFlight :
       /\ tiInFlight' = tiInFlight \ {req}
       /\ tiLoading' = FALSE
       /\ IF out = "ok"
          THEN /\ tiResult' = [destination |-> req.destination,
                               interests |-> req.interests]
               /\ UNCHANGED tiError
          ELSE /\ tiError' = TiCaught(TiThrown(out, status, detail))
               /\ UNCHANGED tiResult
  /\ UNCHANGED tiInterests
  /\ UNCHANGED <<page, selVars, stageVars, rvVars, tmVars, tcVars, igVars, wzVars>>

(***************************************************************************)
(* ItineraryGeneration                                                     *)
(***************************************************************************)
\* buttons that are rendered and enabled in every state
GenerateAlwaysAvailable == TRUE

\* one of the buttons bound to handleGenerateItinerary is rendered and
\* enabled: Generate My Itinerary (!itinerary, disabled while loading),
\* Try Again (error), Regenerate and Generate Another (itinerary)
GenerateAvailable ==
  \/ itinerary = Null /\ ~igLoading
  \/ igError # None
  \/ itinerary # Null

\* handleGenerateItinerary up to the fetch
handleGenerateItinerary ==
  /\ page = "ItineraryGeneration"
  /\ configuration # Null
  /\ GenerateAvailable
  /\ igLoading' = TRUE
  /\ igError' = None
  /\ itinerary' = Null
  /\ itineraryInFlight' =
       itineraryInFlight (+) SetToBag({StringifyConfiguration(configuration)})
  /\ UNCHANGED configuration
  /\ UNCHANGED <<page, selVars, stageVars, rvVars, tmVars, tiVars, tcVars, wzVars>>

\* a continuation whose catch sends the failed request again
ItineraryRespondRetrying(out, detail) ==
  /\ page = "ItineraryGeneration"
  /\ detail # NoDetail => out = "notOk"
  /\ \E body \in BagToSet(itineraryInFlight) :
       IF out = "ok"
       THEN /\ itineraryInFlight' = itineraryInFlight (-) SetToBag({body})
            /\ igLoading' = FALSE
            /\ itinerary' = GenerateItinerary(body)
            /\ UNCHANGED igError
       ELSE /\ igError' = CaughtMessage(out, detail, ErrItineraryFallback)
            /\ UNCHANGED <<itineraryInFlight, igLoading, itinerary>>
  /\ UNCHANGED configuration
  /\ UNCHANGED <<page, selVars, stageVars, rvVars, tmVars, tiVars, tcVars, wzVars>>

\* the itinerary fetch settles: handleGenerateItinerary after its await
ItineraryRespond(out, detail) ==
  /\ page = "ItineraryGeneration"
  /\ detail # NoDetail => out = "notOk"
  /\ \E body \in BagToSet(itineraryInFlight) :
       /\ itineraryInFlight' = itineraryInFlight (-) SetToBag({body})
       /\ igLoading' = FALSE
       /\ IF out = "ok"
          THEN itinerary' = GenerateItinerary(body) /\ UNCHANGED igError
          ELSE /\ igError' = CaughtMessage(out, detail, ErrItineraryFallback)
               /\ UNCHANGED itinerary
  /\ UNCHANGED configuration
  /\ UNCHANGED <<page, selVars, stageVars, rvVars, tmVars, tiVars, tcVars, wzVars>>

(***************************************************************************)
(* ItineraryCreationPage: the three-step wizard                            *)
(***************************************************************************)
\* the texts typed into the destination input
WzDestinations == {"", "Bali"}
\* the values of the date inputs
WzDates == {"", "2025-06-01"}
\* the interest cards the user chooses among
WzInterestOptions == {"culture", "food"}
WzPaces == {"relaxed", "moderate", "packed"}
exampleItinerary == [destination |-> "Bali, Indonesia", duration |-> "3 Days"]

\* destination input onChange (rendered in step 1)
setDestination(v) ==
  /\ page = "ItineraryCreationPage"
  /\ currentStep = 1
  /\ v # wzDestination
  /\ wzDestination' = v
  /\ UNCHANGED <<currentStep, startDate, endDate, wzInterests, wzPace,
                 generatedItinerary>>
  /\ UNCHANGED <<page, selVars, stageVars, rvVars, tmVars, tiVars, tcVars,
                 igVars>>

\* start-date input onChange (rendered in step 1)
setStartDate(v) ==
  /\ page = "ItineraryCreationPage"
  /\ currentStep = 1
  /\ v # startDate
  /\ startDate' = v
  /\ UNCHANGED <<currentStep, wzDestination, endDate, wzInterests, wzPace,
                 generatedItinerary>>
  /\ UNCHANGED <<page, selVars, stageVars, rvVars, tmVars, tiVars, tcVars,
                 igVars>>

\* end-date input onChange (rendered in step 1)
setEndDate(v) ==
  /\ page = "ItineraryCreationPage"
  /\ currentStep = 1
  /\ v # endDate
  /\ endDate' = v
  /\ UNCHANGED <<currentStep, wzDestination, startDate, wzInterests, wzPace,
                 generatedItinerary>>
  /\ UNCHANGED <<page, selVars, stageVars, rvVars, tmVars, tiVars, tcVars,
                 igVars>>

\* a Next button that is never disabled
NextDisabledNever == FALSE

\* disabled={!destination || !startDate || !endDate}
NextDisabled == wzDestination = "" \/ startDate = "" \/ endDate = ""

\* click on Next: Preferences (step 1): setCurrentStep(2)
NextPreferences ==
  /\ page = "ItineraryCreationPage"
  /\ currentStep = 1
  /\ ~NextDisabled
  /\ currentStep' = 2
  /\ UNCHANGED <<wzDestination, startDate, endDate, wzInterests, wzPace,
                 generatedItinerary>>
  /\ UNCHANGED <<page, selVars, stageVars, rvVars, tmVars, tiVars, tcVars,
                 igVars>>

\* click on Back (step 2): setCurrentStep(1)
BackToDestination ==
  /\ page = "ItineraryCreationPage"
  /\ currentStep = 2
  /\ currentStep' = 1
  /\ UNCHANGED <<wzDestination, startDate, endDate, wzInterests, wzPace,
                 generatedItinerary>>
  /\ UNCHANGED <<page, selVars, stageVars, rvVars, tmVars, tiVars, tcVars,
                 igVars>>

\* click on an interest card (step 2): toggleInterest(interest.id)
WzToggleInterest(id) ==
  /\ page = "ItineraryCreationPage"
  /\ currentStep = 2
  /\ wzInterests' = ToggledInterests(wzInterests, id)
  /\ UNCHANGED <<currentStep, wzDestination, startDate, endDate, wzPace,
                 generatedItinerary>>
  /\ UNCHANGED <<page, selVars, stageVars, rvVars, tmVars, tiVars, tcVars,
                 igVars>>

\* click on a pace card (step 2): setPace(paceOption)
WzSetPace(p) ==
  /\ page = "ItineraryCreationPage"
  /\ currentStep = 2
  /\ p # wzPace
  /\ wzPace' = p
  /\ UNCHANGED <<currentStep, wzDestination, startDate, endDate, wzInterests,
                 generatedItinerary>>
  /\ UNCHANGED <<page, selVars, stageVars, rvVars, tmVars, tiVars, tcVars,
                 igVars>>

\* click on Generate Itinerary (step 2, disabled={interests.length === 0})
generateItinerary ==
  /\ page = "ItineraryCreationPage"
  /\ currentStep = 2
  /\ Len(wzInterests) # 0
  /\ generatedItinerary' = exampleItinerary
  /\ currentStep' = 3
  /\ UNCHANGED <<wzDestination, startDate, endDate, wzInterests, wzPace>>
  /\ UNCHANGED <<page, selVars, stageVars, rvVars, tmVars, tiVars, tcVars,
                 igVars>>

\* click on Create New / Plan Another Trip (rendered with
\* currentStep === 3 && generatedItinerary)
resetForm ==
  /\ page = "ItineraryCreationPage"
  /\ currentStep = 3
  /\ generatedItinerary # Null
  /\ currentStep' = 1
  /\ wzDestination' = ""
  /\ startDate' = ""
  /\ endDate' = ""
  /\ wzInterests' = <<>>
  /\ wzPace' = "moderate"
  /\ generatedItinerary' = Null
  /\ UNCHANGED <<page, selVars, stageVars, rvVars, tmVars, tiVars, tcVars,
                 igVars>>

(***************************************************************************)
(* Initial state and next-state relations                                  *)
(***************************************************************************)
\* The state after the router has mounted a page.  TravelMode's effect runs
\* on mount, so that page starts with its first request in flight.  A page
\* opened directly finds its session item absent; ItineraryGeneration may
\* also find an item that does not parse.
Init ==
  /\ page \in Pages
  /\ city = [s \in AllSelectors |-> NoCity]
  /\ cityQuery = [s \in AllSelectors |-> ""]
  /\ suggestions = [s \in AllSelectors |-> <<>>]
  /\ isSearching = [s \in AllSelectors |-> FALSE]
  /\ showDropdown = [s \in AllSelectors |-> FALSE]
  /\ searchTimer = [s \in AllSelectors |-> NoTimer]
  /\ searchInFlight = [s \in AllSelectors |-> EmptyBag]
  /\ days = InitialDays
  /\ validationResult = Null
  /\ isValidating = FALSE
  /\ validationError = None
  /\ validateInFlight = {}
  /\ preferredMode = None
  /\ modeData = Null
  /\ isLoadingModes = FALSE
  /\ modeError = None
  /\ modeInFlight = EmptyBag
  /\ sessionTripData = Null
  /\ rvSource = NoCity
  /\ rvDestination = NoCity
  /\ rvDays = InitialDays
  /\ rvValidationResult = Null
  /\ rvIsValidating = FALSE
  /\ rvError = None
  /\ rvInFlight = {}
  /\ tmDistance = InitialDistance
  /\ tmDays = InitialDays
  /\ tmPreferredMode = None
  /\ tmModeData = Null
  /\ tmError = None
  /\ tmIsLoading = (page = "TravelMode")
  /\ tmInFlight = IF page = "TravelMode"
                  THEN SetToBag({ModesBody(InitialDistance, InitialDays, None)})
                  ELSE EmptyBag
  /\ tiError = None
  /\ tiInterests = <<>>
  /\ tiLoading = FALSE
  /\ tiResult = Null
  /\ tiInFlight = {}
  /\ tcTripData = Null
  /\ detailsConfirmed = FALSE
  /\ pace = InitialPace
  /\ suggestedInterests = <<>>
  /\ selectedInterests = <<>>
  /\ loadingInterests = FALSE
  /\ loadingConfig = FALSE
  /\ tcError = None
  /\ tcResult = Null
  /\ suggestInFlight = {}
  /\ configInFlight = {}
  /\ sessionTripConfiguration \in
       IF page = "ItineraryGeneration" THEN {Null, JsonMalformed} ELSE {Null}
  /\ configuration = LoadConfiguration(sessionTripConfiguration)
  /\ igLoading = FALSE
  /\ igError = None
  /\ itinerary = Null
  /\ itineraryInFlight = EmptyBag
  /\ currentStep = 1
  /\ wzDestination = ""
  /\ startDate = ""
  /\ endDate = ""
  /\ wzInterests = <<>>
  /\ wzPace = "moderate"
  /\ generatedItinerary = Null

\* no debounce timer is pending and no search request is in flight
SearchSettled ==
  \A s \in Selectors :
    searchTimer[s] = NoTimer /\ BagCardinality(searchInFlight[s]) = 0

\* TripPreparation as its stages see it: the user types one of
\* PipelineTexts, the location service answers with both cities, and a
\* search runs to its end before the next event (SearchSettled).  The
\* stages read only city of a selector and no selector action reads a stage
\* variable, so this leaves out no order of selection changes and stage
\* events.
PipelineEditQuery(s, v) == SearchSettled /\ EditQuery(s, v)
PipelinePickCandidate(s, i) == SearchSettled /\ PickCandidate(s, i)
PipelineFocusInput(s) == SearchSettled /\ FocusInput(s)
PipelineChangeDays(d) == SearchSettled /\ ChangeDays(d)
PipelineClickValidateRoute == SearchSettled /\ ClickValidateRoute
PipelineValidateRespond(out, detail) ==
  SearchSettled /\ ValidateRespond(out, detail)
PipelineTogglePreferredMode(m) == SearchSettled /\ TogglePreferredMode(m)
PipelineModeRespond(out, detail) ==
  SearchSettled /\ ModeRespond(out, detail)
PipelineProceedToConfiguration == SearchSettled /\ ProceedToConfiguration

TripPreparationNext ==
  \/ \E s \in Selectors, v \in PipelineTexts : PipelineEditQuery(s, v)
  \/ \E s \in Selectors, i \in 1..2 : PipelinePickCandidate(s, i)
  \/ \E s \in Selectors : PipelineFocusInput(s)
  \/ \E s \in Selectors : DebounceFire(s)
  \/ \E s \in Selectors, q \in Texts :
       SearchRespond(s, q, "ok", <<Mumbai, Goa>>)
  \/ \E d \in DayChoices : PipelineChangeDays(d)
  \/ PipelineClickValidateRoute
  \/ \E out \in Outcomes, detail \in Details :
       PipelineValidateRespond(out, detail)
  \/ \E m \in PipelineModes : PipelineTogglePreferredMode(m)
  \/ \E out \in Outcomes, detail \in Details :
       PipelineModeRespond(out, detail)
  \/ PipelineProceedToConfiguration

RouteValidationNext ==
  \/ \E c \in Cities \cup {NoCity} : SelectSource(c)
  \/ \E c \in Cities \cup {NoCity} : SelectDestination(c)
  \/ \E d \in DayChoices : RvChangeDays(d)
  \/ handleValidate
  \/ \E out \in Outcomes, detail \in Details :
       RvValidateRespond(out, detail)
  \/ UseMinimumDays

TravelModeNext ==
  \/ \E x \in DistanceChoices : TmChangeDistance(x)
  \/ \E d \in DayChoices : TmChangeDays(d)
  \/ \E m \in Modes : TmTogglePreferredMode(m)
  \/ TmClearSelection
  \/ \E out \in Outcomes, detail \in Details :
       TmModeRespond(out, detail)

\* TripPreparation when the location service lists two cities of one name
NamesakeNext ==
  \/ \E s \in Selectors, v \in PipelineTexts : PipelineEditQuery(s, v)
  \/ \E s \in Selectors, i \in 1..3 : PipelinePickCandidate(s, i)
  \/ \E s \in Selectors : PipelineFocusInput(s)
  \/ \E s \in Selectors : DebounceFire(s)
  \/ \E s \in Selectors, q \in Texts :
       SearchRespond(s, q, "ok", <<Mumbai, Goa, GoaNamesake>>)
  \/ \E d \in DayChoices : PipelineChangeDays(d)
  \/ PipelineClickValidateRoute
  \/ \E out \in Outcomes, detail \in Details :
       PipelineValidateRespond(out, detail)
  \/ \E m \in PipelineModes : PipelineTogglePreferredMode(m)
  \/ \E out \in Outcomes, detail \in Details :
       PipelineModeRespond(out, detail)
  \/ PipelineProceedToConfiguration

\* the selectors of TripPreparation in full, while no stage runs
SelectorNext ==
  \/ \E s \in Selectors, v \in Texts : EditQuery(s, v)
  \/ \E s \in Selectors, i \in 1..2 : PickCandidate(s, i)
  \/ \E s \in Selectors : FocusInput(s)
  \/ \E S \in SUBSET Selectors : ClickOutside(S)
  \/ \E s \in Selectors : DebounceFire(s)
  \/ \E s \in Selectors, q \in Texts, out \in Outcomes, data \in SearchResults :
       SearchRespond(s, q, out, data)

TestItineraryNext ==
  \/ \E v \in Texts : handleCityInputChange(v)
  \/ \E i \in 1..2 : handleCitySelect(i)
  \/ ClearSelectedCity
  \/ TiFocusInput
  \/ TiClickOutside
  \/ TiDebounceFire
  \/ \E q \in Texts, out \in Outcomes, data \in SearchResults :
       TiSearchRespond(q, out, data)

TripConfigurationNext ==
  \/ ConfirmDetails
  \/ \E p \in Paces : setPace(p)
  \/ handleSuggestInterests
  \/ \E out \in Outcomes, detail \in Details, data \in SuggestionLists :
       SuggestRespond(out, detail, data)
  \/ \E i \in 1..Len(Interests) : toggleInterest(Interests[i])
  \/ handleConfigureTrip
  \/ \E out \in Outcomes, detail \in Details : ConfigureRespond(out, detail)
  \/ PersistAndGenerate

ItineraryGenerationNext ==
  \/ handleGenerateItinerary
  \/ \E out \in Outcomes, detail \in Details : ItineraryRespond(out, detail)

\* the stages: TripPreparation, RouteValidation, TravelMode,
\* TripConfiguration and ItineraryGeneration
Next ==
  \/ TripPreparationNext
  \/ RouteValidationNext
  \/ TravelModeNext
  \/ TripConfigurationNext
  \/ ItineraryGenerationNext

Spec == Init /\ [][Next]_vars

\* the selectors: TripPreparation's two and TestItinerary's one
SearchNext == SelectorNext \/ TestItineraryNext

SpecSearch == Init /\ [][SearchNext]_vars

SpecNamesake == Init /\ [][NamesakeNext]_vars

\* TestItinerary: its selector and handleGenerate
GenerateNext ==
  \/ TestItineraryNext
  \/ \E id \in TiInterestOptions : TiToggleInterest(id)
  \/ handleGenerate
  \/ \E out \in Outcomes, status \in TiStatuses, detail \in TiDetails :
       TiGenerateRespond(out, status, detail)

SpecGenerate == Init /\ [][GenerateNext]_vars

\* ItineraryCreationPage
WizardNext ==
  \/ \E v \in WzDestinations : setDestination(v)
  \/ \E v \in WzDates : setStartDate(v)
  \/ \E v \in WzDates : setEndDate(v)
  \/ NextPreferences
  \/ BackToDestination
  \/ \E id \in WzInterestOptions : WzToggleInterest(id)
  \/ \E p \in WzPaces : WzSetPace(p)
  \/ generateItinerary
  \/ resetForm

SpecWizard == Init /\ [][WizardNext]_vars

\* TripPreparation with collaborators that always answer: a pending
\* debounce timer fires, a search in flight is answered, and of the mode
\* requests in flight one is answered again and again (strong fairness:
\* the answer does not wait for the selectors to settle)
ModeAnswered ==
  \E out \in Outcomes, detail \in Details : PipelineModeRespond(out, detail)

SearchAnswered(s) ==
  \E q \in Texts : SearchRespond(s, q, "ok", <<Mumbai, Goa>>)

\* the events of TripPreparation that a stage can see: all but the focus of
\* an input, which only reopens a dropdown
LiveNext ==
  \/ \E s \in Selectors, v \in PipelineTexts : PipelineEditQuery(s, v)
  \/ \E s \in Selectors, i \in 1..2 : PipelinePickCandidate(s, i)
  \/ \E s \in Selectors : DebounceFire(s)
  \/ \E s \in Selectors : SearchAnswered(s)
  \/ \E d \in DayChoices : PipelineChangeDays(d)
  \/ PipelineClickValidateRoute
  \/ \E out \in Outcomes, detail \in Details :
       PipelineValidateRespond(out, detail)
  \/ \E m \in PipelineModes : PipelineTogglePreferredMode(m)
  \/ ModeAnswered
  \/ PipelineProceedToConfiguration

SpecLive ==
  /\ Init
  /\ [][LiveNext]_vars
  /\ \A s \in Selectors : WF_vars(DebounceFire(s))
  /\ \A s \in Selectors : WF_vars(SearchAnswered(s))
  /\ SF_vars(ModeAnswered)

\* every page with collaborators that always answer.  In TripPreparation
\* the user types one text, which is enough to select and reselect both
\* endpoints, and in TravelMode the user prefers one mode; every other
\* event of the stage pages is kept.
AnsweredNext ==
  \/ \E s \in Selectors : PipelineEditQuery(s, "Goa")
  \/ \E s \in Selectors, i \in 1..2 : PipelinePickCandidate(s, i)
  \/ \E s \in Selectors : DebounceFire(s)
  \/ \E s \in Selectors : SearchAnswered(s)
  \/ \E d \in DayChoices : PipelineChangeDays(d)
  \/ PipelineClickValidateRoute
  \/ \E out \in Outcomes, detail \in Details :
       PipelineValidateRespond(out, detail)
  \/ \E m \in PipelineModes : PipelineTogglePreferredMode(m)
  \/ ModeAnswered
  \/ PipelineProceedToConfiguration
  \/ RouteValidationNext
  \/ \E x \in DistanceChoices : TmChangeDistance(x)
  \/ \E d \in DayChoices : TmChangeDays(d)
  \/ TmTogglePreferredMode("flight")
  \/ TmClearSelection
  \/ \E out \in Outcomes, detail \in Details : TmModeRespond(out, detail)
  \/ TripConfigurationNext
  \/ ItineraryGenerationNext

\* each request in flight is answered; the answers to the stages of
\* TripPreparation get strong fairness, for the same reason as in SpecLive
SpecAnswered ==
  /\ Init
  /\ [][AnsweredNext]_vars
  /\ \A s \in Selectors : WF_vars(DebounceFire(s))
  /\ \A s \in Selectors : WF_vars(SearchAnswered(s))
  /\ SF_vars(\E out \in Outcomes, detail \in Details :
               PipelineValidateRespond(out, detail))
  /\ SF_vars(ModeAnswered)
  /\ WF_vars(\E out \in Outcomes, detail \in Details :
               RvValidateRespond(out, detail))
  /\ WF_vars(\E out \in Outcomes, detail \in Details :
               TmModeRespond(out, detail))
  /\ WF_vars(\E out \in Outcomes, detail \in Details,
                 data \in SuggestionLists :
               SuggestRespond(out, detail, data))
  /\ WF_vars(\E out \in Outcomes, detail \in Details :
               ConfigureRespond(out, detail))
  /\ WF_vars(\E out \in Outcomes, detail \in Details :
               ItineraryRespond(out, detail))

(***************************************************************************)
(* Claims                                                                  *)
(***************************************************************************)
\* both endpoints of TripPreparation are committed
BothSelected == city["source"] # NoCity /\ city["dest"] # NoCity

\* C1: a response to a search dispatched for a query text other than the
\* current one changes neither the candidate list nor the dropdown
\* visibility of its selector (stale search responses are dropped).
C1_StaleSearchResponseDropped ==
  [][\A s \in AllSelectors, q \in Texts :
       (CopiesIn(q, searchInFlight'[s]) < CopiesIn(q, searchInFlight[s])
        /\ q # cityQuery[s])
       => (suggestions'[s] = suggestions[s]
           /\ showDropdown'[s] = showDropdown[s])]_vars

\* C2: a feasibility response is committed to validationResult only if it
\* answers the source, destination and days held when it resolves, and a
\* mode response is committed to modeData only if it answers the distance,
\* days and preferred mode held when it resolves (TripPreparation and
\* TravelMode).
C2_StaleStageResponseDropped ==
  [][/\ (validationResult' # Null /\ validationResult' # validationResult)
        => (BothSelected
            /\ validationResult'.req =
                 ValidateBody(city["source"], city["dest"], days))
     /\ (modeData' # Null /\ modeData' # modeData)
        => (validationResult # Null
            /\ modeData'.req =
                 ModesBody(validationResult.distance_km, days, preferredMode))
     /\ (tmModeData' # Null /\ tmModeData' # tmModeData)
        => tmModeData'.req = ModesBody(tmDistance, tmDays, tmPreferredMode)
    ]_vars

\* C3: every step of TripPreparation that changes the committed source or
\* destination leaves validationResult, modeData and preferredMode reset.
C3_EndpointChangeResetsStages ==
  [][(city'["source"] # city["source"] \/ city'["dest"] # city["dest"])
     => (validationResult' = Null /\ modeData' = Null
         /\ preferredMode' = None)]_vars

\* C4: a held feasibility result was computed for the current day count
\* (TripPreparation and RouteValidation), and so was a held mode
\* recommendation of TripPreparation.
C4_ResultsMatchDays ==
  /\ validationResult # Null => validationResult.req.days = days
  /\ modeData # Null => modeData.req.days = days
  /\ rvValidationResult # Null => rvValidationResult.req.days = rvDays

\* C5: in every selector a committed city implies that the query text is
\* that city's name.
C5_SelectionMatchesQuery ==
  \A s \in AllSelectors : city[s] # NoCity => cityQuery[s] = city[s].name

\* C5 witness: a candidate has been picked in the source selector
C5_Witness ==
  city["source"] = Mumbai /\ cityQuery["source"] = "Mumbai"

\* C6: while the held feasibility result answers the current source,
\* destination and days, no step that leaves these inputs alone dispatches
\* a feasibility request; while the held modeData answers the current
\* distance, days and preferred mode, no step that leaves these alone
\* dispatches a mode request.
C6_FreshStageIsIdempotent ==
  [][/\ (/\ validationResult # Null
         /\ BothSelected
         /\ validationResult.req =
              ValidateBody(city["source"], city["dest"], days)
         /\ city' = city /\ days' = days)
        => validateInFlight' \subseteq validateInFlight
     /\ (/\ modeData # Null
         /\ validationResult # Null
         /\ modeData.req =
              ModesBody(validationResult.distance_km, days, preferredMode)
         /\ validationResult' = validationResult
         /\ days' = days /\ preferredMode' = preferredMode)
        => BagCardinality(modeInFlight') <= BagCardinality(modeInFlight)
    ]_vars

\* C7: modeData is held only while a feasible validationResult is held.
C7_ModeDataOnlyWhenFeasible ==
  modeData # Null => FeasibleResult(validationResult)

\* C8: a feasibility request is dispatched only with two committed
\* endpoints of different names, and a click on Validate Route with a
\* missing endpoint or equal endpoints dispatches nothing and sets the
\* validation error (TripPreparation and RouteValidation).
C8_EndpointGuard ==
  [][/\ (validateInFlight' \ validateInFlight # {})
        => (BothSelected /\ city["source"].name # city["dest"].name)
     /\ (ClickValidateRoute
         /\ (~BothSelected \/ city["source"].name = city["dest"].name))
        => (validateInFlight' = validateInFlight
            /\ validationError' \in {ErrBothCities, ErrSameCity})
     /\ (rvInFlight' \ rvInFlight # {})
        => (rvSource # NoCity /\ rvDestination # NoCity
            /\ rvSource.name # rvDestination.name)
     /\ (handleValidate
         /\ (rvSource = NoCity \/ rvDestination = NoCity
             \/ rvSource.name = rvDestination.name))
        => (rvInFlight' = rvInFlight
            /\ rvError' \in {ErrBothCities, ErrSameCity})
    ]_vars

\* C8 witness: Validate Route was clicked with the same city on both sides
C8_Witness ==
  /\ BothSelected
  /\ city["source"].name = city["dest"].name
  /\ validationError = ErrSameCity
  /\ validateInFlight = {}

\* C9: the Use N Days action of RouteValidation sets days to minimum_days
\* and dispatches the feasibility request for that day count.
C9_UseMinimumDaysRevalidates ==
  [][UseMinimumDays
     => (rvDays' = rvValidationResult.minimum_days
         /\ ValidateBody(rvSource, rvDestination, rvDays') \in rvInFlight')
    ]_vars

\* C10: the travel_mode written to session storage is never null.
C10_PersistedModeChosen ==
  sessionTripData # Null => ParseTripData(sessionTripData).travel_mode # None

\* C12: when the mode request for the current inputs, the last one in
\* flight, ends in failure with no earlier failure recorded, or when a
\* feasibility request ends in failure, Step 4 (advance to configuration)
\* is not offered in the state the failure leaves.
C12_FailedStageBlocksProceed ==
  [][/\ (/\ validationResult # Null
         /\ modeInFlight = SetToBag({ModesBody(validationResult.distance_km,
                                               days, preferredMode)})
         /\ modeInFlight' = EmptyBag
         /\ modeError = None
         /\ modeError' = ErrModesFailed)
        => ~Step4Rendered'
     /\ (validateInFlight # {} /\ validateInFlight' = {}
         /\ validationError' = ErrValidateFailed)
        => ~Step4Rendered']_vars

\* C13: a change of the day count resets the preferred mode to none.
C13_DayChangeResetsPreferredMode ==
  [][days' # days => preferredMode' = None]_vars

\* C17: for the feasibility and mode stages of TripPreparation,
\* RouteValidation and TravelMode, a step in which the request was rejected
\* (collaborator unreachable) is never also a step in which the collaborator
\* answered non-success: the two leave different error messages.
C17_TransportFailureDistinct ==
  [][/\ ~(ValidateRespond("reject", NoDetail)
          /\ ValidateRespond("notOk", NoDetail))
     /\ ~(ModeRespond("reject", NoDetail) /\ ModeRespond("notOk", NoDetail))
     /\ ~(RvValidateRespond("reject", NoDetail)
          /\ RvValidateRespond("notOk", NoDetail))
     /\ ~(TmModeRespond("reject", NoDetail)
          /\ TmModeRespond("notOk", NoDetail))]_vars

\* C18: in TripPreparation, when the feasibility or the mode collaborator
\* answers non-success with a detail message, the error shown is that
\* detail message.
C18_CollaboratorDetailSurfaced ==
  [][\A detail \in Details \ {NoDetail} :
       /\ ValidateRespond("notOk", detail) => validationError' = detail
       /\ ModeRespond("notOk", detail) => modeError' = detail]_vars

\* C19: a location-search request is dispatched only by the pending timer
\* of its selector, for a text of length at least 2 that is still the
\* query text; a pending timer is always the timer of the current query
\* text, so a change of the query leaves no timer of the earlier text.
C19_DebounceDispatchPrecondition ==
  [][\A s \in AllSelectors :
       /\ \A q \in Texts :
            CopiesIn(q, searchInFlight'[s]) > CopiesIn(q, searchInFlight[s])
              => /\ Len(q) >= MinQueryLen
                 /\ q = cityQuery[s]
                 /\ searchTimer[s] = q
                 /\ searchTimer'[s] = NoTimer
       /\ searchTimer'[s] # NoTimer
            => /\ searchTimer'[s] = cityQuery'[s]
               /\ Len(cityQuery'[s]) >= MinQueryLen]_vars

\* a search for the current text, of length at least 2, is in flight
C19_Witness ==
  \E s \in AllSelectors :
    /\ Len(cityQuery[s]) >= MinQueryLen
    /\ BagIn(cityQuery[s], searchInFlight[s])
    /\ searchTimer[s] = NoTimer

\* C20: while a city is selected and the query text equals its name, no
\* debounce timer is pending (a timer pending at the pick was cancelled)
\* and no location-search request is dispatched.
C20_PickSuppressesSearch ==
  [][\A s \in AllSelectors :
       /\ (city'[s] # NoCity /\ cityQuery'[s] = city'[s].name)
            => searchTimer'[s] = NoTimer
       /\ (city[s] # NoCity /\ cityQuery[s] = city[s].name)
            => \A q \in Texts :
                 CopiesIn(q, searchInFlight'[s])
                   <= CopiesIn(q, searchInFlight[s])]_vars

\* a pick cancelled the pending timer of the text typed before it: the
\* searching flag that timer's effect had set is still up
C20_Witness ==
  \E s \in AllSelectors :
    /\ city[s] # NoCity
    /\ cityQuery[s] = city[s].name
    /\ isSearching[s]
    /\ searchTimer[s] = NoTimer
    /\ searchInFlight[s] = EmptyBag

\* C11: a configure request is dispatched only with at least one selected
\* interest; a finalize invoked with none sets the error 'Please select at
\* least one interest' and leaves result, loading flag and requests as
\* they are; with the details confirmed, no configure request in flight
\* and at least one interest selected, the finalize action is enabled.
C11_InterestGuard ==
  [][/\ ~(configInFlight' \subseteq configInFlight)
          => /\ Len(selectedInterests) > 0
             /\ \A req \in configInFlight' \ configInFlight :
                  Len(req.selected_interests) > 0
     /\ (handleConfigureTrip /\ Len(selectedInterests) = 0)
          => /\ tcError' = ErrNoInterest
             /\ UNCHANGED <<tcResult, loadingConfig, configInFlight>>
     /\ (detailsConfirmed' /\ ~loadingConfig' /\ Len(selectedInterests') > 0)
          => ~ConfigureDisabled']_vars

\* a configure request with a selected interest is in flight
C11_Witness ==
  \E req \in configInFlight : Len(req.selected_interests) > 0

C15_ItineraryFailureSurfaced ==
  [][\A d \in Details \ {NoDetail} :
       ItineraryRespond("notOk", d)
         => /\ igError' = d
            /\ itinerary' = Null
            /\ ~igLoading'
            /\ GenerateAvailable']_vars

\* the detail of a failed itinerary request is shown
C15_Witness ==
  /\ page = "ItineraryGeneration"
  /\ igError \in Details \ {NoDetail}
  /\ itinerary = Null
  /\ ~igLoading

\* C16: every generate action of ItineraryGeneration (first generation,
\* try again, regenerate, generate another) dispatches exactly one
\* itinerary request, whose body is the stored configuration; it leaves the
\* loaded configuration and the session storage unchanged and dispatches
\* no request of an earlier stage.
C16_RegenerateSameConfiguration ==
  [][handleGenerateItinerary
       => /\ itineraryInFlight = EmptyBag
          /\ itineraryInFlight' = SetToBag({sessionTripConfiguration})
          /\ ParseConfiguration(sessionTripConfiguration) = configuration
          /\ UNCHANGED <<configuration, sessionTripConfiguration,
                         sessionTripData, searchInFlight, validateInFlight,
                         modeInFlight, suggestInFlight, configInFlight>>]_vars

\* an itinerary is held, so Regenerate and Generate Another are on offer
C16_Witness ==
  /\ page = "ItineraryGeneration"
  /\ configuration # Null
  /\ itinerary # Null

\* C21: when a location-search request fails (non-success answer or
\* rejected fetch), the candidate list of its selector becomes empty, its
\* dropdown is hidden and its searching flag is cleared; no error of the
\* page and no stage output changes, and the selection and the query text
\* stay as they are.
C21_SearchFailureSilent ==
  [][\A s \in AllSelectors, q \in Texts, data \in SearchResults :
       \A out \in Outcomes \ {"ok"} :
         RespondCore(s, q, out, data)
           => /\ suggestions'[s] = <<>>
              /\ ~showDropdown'[s]
              /\ ~isSearching'[s]
              /\ UNCHANGED <<city, cityQuery, stageVars, tiError>>]_vars

\* a selector whose search has settled with nothing to show: a text of
\* length at least 2, no selection, and no timer, request, flag or list
C21_Witness ==
  \E s \in AllSelectors :
    /\ Len(cityQuery[s]) >= MinQueryLen
    /\ city[s] = NoCity
    /\ searchTimer[s] = NoTimer
    /\ searchInFlight[s] = EmptyBag
    /\ ~isSearching[s]
    /\ suggestions[s] = <<>>
    /\ ~showDropdown[s]

\* C23: a click on Validate Route with two committed endpoints is rejected
\* as 'same endpoint' exactly when they agree in name and in state; for two
\* cities of one name in different states the feasibility request is
\* dispatched (TripPreparation and RouteValidation).
C23_IdentityIsNameAndRegion ==
  [][/\ (ClickValidateRoute /\ city["source"] # NoCity /\ city["dest"] # NoCity)
          => IF /\ city["source"].name = city["dest"].name
                /\ city["source"].state = city["dest"].state
             THEN /\ validationError' = ErrSameCity
                  /\ validateInFlight' = validateInFlight
             ELSE ValidateBody(city["source"], city["dest"], days)
                    \in validateInFlight'
     /\ (handleValidate /\ rvSource # NoCity /\ rvDestination # NoCity)
          => IF /\ rvSource.name = rvDestination.name
                /\ rvSource.state = rvDestination.state
             THEN rvError' = ErrSameCity /\ rvInFlight' = rvInFlight
             ELSE ValidateBody(rvSource, rvDestination, rvDays) \in rvInFlight'
    ]_vars

\* the number of stage requests in flight, all pages together
StageRequestsInFlight ==
  Cardinality(validateInFlight) + BagCardinality(modeInFlight)
  + Cardinality(rvInFlight) + BagCardinality(tmInFlight)
  + Cardinality(suggestInFlight) + Cardinality(configInFlight)
  + BagCardinality(itineraryInFlight)

\* C22: a step that puts up the error of a failed stage request takes that
\* request out of flight and dispatches none; a request of a stage is
\* dispatched only by a click on the stage's action or, for the mode
\* stage, by a step that changes one of its inputs; and no step dispatches
\* more than one request.
C22_NoAutomaticRetry ==
  [][/\ (\/ validationError' = ErrValidateFailed
            /\ validationError # ErrValidateFailed
         \/ modeError' = ErrModesFailed /\ modeError # ErrModesFailed
         \/ rvError' = RvErrValidateFailed /\ rvError # RvErrValidateFailed
         \/ tmError' = TmErrModesFailed /\ tmError # TmErrModesFailed
         \/ tcError' \notin {None, ErrNoInterest, tcError}
         \/ igError' \notin {None, igError})
          => StageRequestsInFlight' = StageRequestsInFlight - 1
     /\ ~(validateInFlight' \subseteq validateInFlight) => ClickValidateRoute
     /\ BagCardinality(modeInFlight') > BagCardinality(modeInFlight)
          => \/ validationResult' # validationResult
             \/ days' # days
             \/ preferredMode' # preferredMode
     /\ ~(rvInFlight' \subseteq rvInFlight) => handleValidate \/ UseMinimumDays
     /\ BagCardinality(tmInFlight') > BagCardinality(tmInFlight)
          => \/ tmDistance' # tmDistance
             \/ tmDays' # tmDays
             \/ tmPreferredMode' # tmPreferredMode
     /\ ~(suggestInFlight' \subseteq suggestInFlight) => handleSuggestInterests
     /\ ~(configInFlight' \subseteq configInFlight) => handleConfigureTrip
     /\ BagCardinality(itineraryInFlight') > BagCardinality(itineraryInFlight)
          => handleGenerateItinerary
     /\ StageRequestsInFlight' <= StageRequestsInFlight + 1]_vars

\* the mode request of a feasible route has failed and nothing is in
\* flight, although the condition of the auto-fetch effect holds
C22_Witness ==
  /\ page = "TripPreparation"
  /\ FeasibleResult(validationResult)
  /\ modeError = ErrModesFailed
  /\ ~isLoadingModes
  /\ modeInFlight = EmptyBag
  /\ validateInFlight = {}

\* C24: selectedInterests never holds an entry twice; toggleInterest of an
\* interest that is not selected appends it after the others, and of a
\* selected one removes that one entry and keeps the order of the rest.
C24_SelectedInterestsOrderedSet ==
  [][/\ \A i, j \in 1..Len(selectedInterests') :
          selectedInterests'[i] = selectedInterests'[j] => i = j
     /\ \A k \in 1..Len(Interests) :
          toggleInterest(Interests[k])
            => IF \E i \in 1..Len(selectedInterests) :
                    selectedInterests[i] = Interests[k]
               THEN /\ Len(selectedInterests') = Len(selectedInterests) - 1
                    /\ selectedInterests' =
                         SelectSeq(selectedInterests,
                                   LAMBDA x : x # Interests[k])
               ELSE selectedInterests' =
                      Append(selectedInterests, Interests[k])]_vars

\* C25: the previous output of a stage is cleared when its request is
\* dispatched: while a feasibility request is in flight validationResult
\* is null, while a mode request is in flight modeData is null, and while
\* an itinerary request is in flight itinerary is null.
C25_PendingStageHoldsNoOutput ==
  /\ validateInFlight # {} => validationResult = Null
  /\ modeInFlight # EmptyBag => modeData = Null
  /\ itineraryInFlight # EmptyBag => itinerary = Null

\* C26: two requests of one stage are in flight together only if an input
\* of the stage changed between their dispatches.  A search request is
\* sent only by the pending timer of its selector, which it uses up, and a
\* timer is set only by a step that changes the query text or the selected
\* city; at most one feasibility request is in flight; a mode request is
\* added to one in flight only by a step that changes the validation
\* result, the days or the preferred mode (TripPreparation), resp. the
\* distance, the days or the preferred mode (TravelMode).
C26_OverlapNeedsDependencyChange ==
  [][/\ \A s \in AllSelectors :
          /\ (\E q \in Texts : CopiesIn(q, searchInFlight'[s])
                                  > CopiesIn(q, searchInFlight[s]))
               => searchTimer[s] # NoTimer /\ searchTimer'[s] = NoTimer
          /\ (searchTimer[s] = NoTimer /\ searchTimer'[s] # NoTimer)
               => cityQuery'[s] # cityQuery[s] \/ city'[s] # city[s]
     /\ Cardinality(validateInFlight') <= 1
     /\ Cardinality(rvInFlight') <= 1
     /\ (/\ modeInFlight # EmptyBag
         /\ BagCardinality(modeInFlight') > BagCardinality(modeInFlight))
          => \/ validationResult' # validationResult
             \/ days' # days
             \/ preferredMode' # preferredMode
     /\ (/\ tmInFlight # EmptyBag
         /\ BagCardinality(tmInFlight') > BagCardinality(tmInFlight))
          => \/ tmDistance' # tmDistance
             \/ tmDays' # tmDays
             \/ tmPreferredMode' # tmPreferredMode]_vars

\* two mode requests of TripPreparation are in flight together
C26_Witness ==
  /\ page = "TripPreparation"
  /\ BagCardinality(modeInFlight) = 2

\* C27: in TripPreparation the commit of a feasible feasibility result
\* dispatches, in the same step, a mode request for the distance of that
\* result, the current days and the current preferred mode; with a feasible
\* result held, every change of days or preferred mode dispatches a new
\* one; and when the collaborators always answer, a mode request in flight
\* for a feasible result leads to modeData or modeError being set.
C27_AutomaticModeDerivation ==
  /\ [][/\ (/\ validationResult' # Null
            /\ validationResult' # validationResult
            /\ validationResult'.feasible)
           => CopiesIn(ModesBody(validationResult'.distance_km, days',
                                 preferredMode'), modeInFlight')
              = CopiesIn(ModesBody(validationResult'.distance_km, days',
                                   preferredMode'), modeInFlight) + 1
        /\ (/\ validationResult # Null
            /\ validationResult.feasible
            /\ validationResult' = validationResult
            /\ (days' # days \/ preferredMode' # preferredMode))
           => CopiesIn(ModesBody(validationResult.distance_km, days',
                                 preferredMode'), modeInFlight')
              = CopiesIn(ModesBody(validationResult.distance_km, days',
                                   preferredMode'), modeInFlight) + 1]_vars
  /\ (/\ validationResult # Null
      /\ validationResult.feasible
      /\ modeInFlight # EmptyBag)
       ~> (modeData # Null \/ modeError # None)

\* a feasible result has just been committed: its mode request is in
\* flight and neither modeData nor modeError is set
C27_Witness ==
  /\ page = "TripPreparation"
  /\ validationResult # Null
  /\ validationResult.feasible
  /\ modeInFlight =
       SetToBag({ModesBody(validationResult.distance_km, days, preferredMode)})
  /\ modeData = Null
  /\ modeError = None

\* C28: while a selector holds a picked city, with the query text equal to
\* its name and the dropdown closed, a step that leaves the query text
\* alone opens the dropdown only if it is a focus of the input, and does
\* not replace the candidates: a search response that arrives after the
\* pick changes neither.
C28_DropdownStaysClosedAfterPick ==
  [][\A s \in AllSelectors :
       (/\ city[s] # NoCity
        /\ cityQuery[s] = city[s].name
        /\ ~showDropdown[s]
        /\ cityQuery'[s] = cityQuery[s])
         => /\ showDropdown'[s] => FocusCore(s)
            /\ suggestions'[s] = suggestions[s]]_vars

\* C29: in TripConfiguration an interest-suggestion or configure request
\* is dispatched only with tripData loaded from session storage and the
\* details confirmed, and detailsConfirmed, once true, stays true while the
\* page is mounted; in ItineraryGeneration an itinerary request is
\* dispatched only with a configuration loaded from a stored item that
\* exists and parses.
C29_DownstreamNeedsLoadedData ==
  [][/\ (\/ ~(suggestInFlight' \subseteq suggestInFlight)
         \/ ~(configInFlight' \subseteq configInFlight))
          => /\ sessionTripData # Null
             /\ tcTripData = ParseTripData(sessionTripData)
             /\ detailsConfirmed
     /\ (page = "TripConfiguration" /\ page' = "TripConfiguration"
         /\ detailsConfirmed)
          => detailsConfirmed'
     /\ BagCardinality(itineraryInFlight') > BagCardinality(itineraryInFlight)
          => /\ sessionTripConfiguration \notin {Null, JsonMalformed}
             /\ configuration = ParseConfiguration(sessionTripConfiguration)
    ]_vars

\* a configure request is in flight, its details confirmed and its tripData
\* the stored one
C29_Witness ==
  /\ page = "TripConfiguration"
  /\ detailsConfirmed
  /\ configInFlight # {}
  /\ sessionTripData # Null
  /\ tcTripData = ParseTripData(sessionTripData)

\* C30: a finalize result held by TripConfiguration, which Generate
\* Itinerary would persist, was made from the current pace and the current
\* selected interests: an edit of either discards the held result.
C30_ResultReflectsPreferences ==
  tcResult # Null
    => /\ tcResult.constraints.pace = pace
       /\ tcResult.interests = selectedInterests

\* C31: whenever handleProceedToConfiguration can run in TripPreparation
\* (step 4 is rendered), sourceCity and destCity are both selected and
\* have different names.
C31_PersistedEndpointsValid ==
  (Mounted /\ Step4Rendered)
    => /\ ~EndpointMissing(city["source"], city["dest"])
       /\ ~SameEndpoints(city["source"], city["dest"])

\* C32: in TripPreparation validationError and validationResult are never
\* both held.
C32_ResultAndErrorExclusive ==
  Mounted => ~(validationError # None /\ validationResult # Null)

\* C33: in every city selector the searching flag is set only while the
\* selector's debounce timer is pending or one of its location-search
\* requests is in flight.
C33_SearchingFlagAccurate ==
  \A s \in AllSelectors :
    isSearching[s]
      => searchTimer[s] # NoTimer \/ searchInFlight[s] # EmptyBag

\* C34: the loading flag of the mode stage (isLoadingModes of
\* TripPreparation, isLoading of TravelMode) is set in every state in which
\* a mode-recommendation request of the page is in flight, so TravelMode
\* never renders its results while a request is outstanding.
C34_ModeLoadingCoversRequests ==
  /\ modeInFlight # EmptyBag => isLoadingModes
  /\ tmInFlight # EmptyBag => tmIsLoading
  /\ TmResultsRendered => tmInFlight = EmptyBag

C36_LoadingFlagsReleased ==
  /\ [][/\ (validateInFlight' # validateInFlight
            /\ validateInFlight' \subseteq validateInFlight)
             => ~isValidating'
        /\ BagCardinality(modeInFlight') < BagCardinality(modeInFlight)
             => ~isLoadingModes'
        /\ (rvInFlight' # rvInFlight /\ rvInFlight' \subseteq rvInFlight)
             => ~rvIsValidating'
        /\ BagCardinality(tmInFlight') < BagCardinality(tmInFlight)
             => ~tmIsLoading'
        /\ (suggestInFlight' # suggestInFlight
            /\ suggestInFlight' \subseteq suggestInFlight)
             => ~loadingInterests'
        /\ (configInFlight' # configInFlight
            /\ configInFlight' \subseteq configInFlight)
             => ~loadingConfig'
        /\ BagCardinality(itineraryInFlight')
             < BagCardinality(itineraryInFlight)
             => ~igLoading']_vars
  /\ []<>~isValidating
  /\ []<>~isLoadingModes
  /\ []<>~rvIsValidating
  /\ []<>~tmIsLoading
  /\ []<>~loadingInterests
  /\ []<>~loadingConfig
  /\ []<>~igLoading

\* a configure request has failed, the flags of TripConfiguration are
\* cleared and Finalize Configuration is enabled again
C36_Witness ==
  /\ page = "TripConfiguration"
  /\ tcError = ErrConfigureFallback
  /\ ~loadingConfig
  /\ ~loadingInterests
  /\ ~ConfigureDisabled

\* C37: when the itinerary request of TestItinerary is answered with
\* status 429 the error shown is the premium-model-limit message, and with
\* status 400 the invalid-request message, with or without a detail in the
\* response body; the generic message is shown only for other failures.
C37_StatusSpecificErrors ==
  [][\A detail \in TiDetails :
       /\ TiGenerateRespond("notOk", "429", detail)
            => tiError' = TiErrPremiumLimit
       /\ TiGenerateRespond("notOk", "400", detail)
            => tiError' = TiErrInvalidRequest]_vars

\* C38: in the wizard currentStep is 1, 2 or 3; it is 3 exactly when
\* generatedItinerary is held; from step 2 on the destination and both
\* dates are non-empty; in step 3 at least one interest is selected; and a
\* step that leaves step 3 (resetForm) ends in the initial state of the
\* wizard.
C38_WizardStepInvariant ==
  /\ [](/\ currentStep \in {1, 2, 3}
        /\ currentStep = 3 <=> generatedItinerary # Null
        /\ currentStep >= 2
             => wzDestination # "" /\ startDate # "" /\ endDate # ""
        /\ currentStep = 3 => Len(wzInterests) > 0)
  /\ [][(currentStep = 3 /\ currentStep' # 3)
          => wzVars' = <<1, "", "", "", <<>>, "moderate", Null>>]_vars

\* the wizard shows the generated itinerary after the user chose two
\* interests and another pace than the initial one
C38_Witness ==
  /\ page = "ItineraryCreationPage"
  /\ currentStep = 3
  /\ generatedItinerary = exampleItinerary
  /\ Len(wzInterests) = 2
  /\ wzPace # "moderate"
====
